---- MODULE Spec2Model ----
(***************************************************************************)
(* arch-gen: the workspace model construction and tree/graph rendering of  *)
(* src/unnamed/part_002 (createNodeTree, generateFolderTree,               *)
(* sanitizeMermaid, generateDependencyGraph), the variant functions of     *)
(* src/src/index.ts, and the command line handler program.action with      *)
(* getPnpmWorkspaceProjects and the two AI functions.                      *)
(*                                                                         *)
(* Strings are TLA+ strings; a character is a string of length 1.  A text  *)
(* is modelled as the sequence of its lines (each line the text before its *)
(* "\n").  The box-drawing connectors and the back quotes of the source    *)
(* cannot be written in a TLA+ string: BranchConnector, CornerConnector,   *)
(* VerticalGuide and Fence stand for them, one distinct ASCII string each. *)
(***************************************************************************)
EXTENDS Integers, Sequences, FiniteSets, TLC

VARIABLES
    projects,   \* the WorkspaceProjects list handed to generateArchitectureDoc
    pc,         \* position inside generateArchitectureDoc
    nodes,      \* const nodes = createNodeTree(projects)
    tree,       \* const tree = generateFolderTree(nodes)
    graph,      \* const graph = generateDependencyGraph(projects)
    previous,   \* what the invocation before this one built, <<>> in the first
    variant,    \* which source file's functions run
    s,          \* the argument of sanitizeMermaid
    once,       \* sanitizeMermaid(s)
    twice,      \* sanitizeMermaid(sanitizeMermaid(s))
    applied,    \* how many times sanitizeMermaid has been applied to s
    options,    \* the command line options and process.env
    discovered, \* what `pnpm ls` prints and what the package.json files hold
    phase,      \* position inside program.action
    returned,   \* what getPnpmWorkspaceProjects returned, <<>> before it has
    error,      \* the error program.action rejected with, <<>> when none
    aiSettings, \* let aiSettings of program.action
    rootPackageJson, \* const rootPackageJson of generateArchitectureDoc
    description, \* let description of generateArchitectureDoc, <<>> when undefined
    stack,      \* let stack of generateArchitectureDoc
    doc,        \* const documentation of program.action, <<>> before
    shouldWrite, \* let shouldWrite of program.action
    file,       \* the contents of ARCHITECTURE.md, <<>> while not written
    events      \* the calls made to the collaborators so far, in order

vars == <<projects, pc, nodes, tree, graph, previous, variant, s, once, twice, applied,
          options, discovered, phase, returned, error, aiSettings,
          rootPackageJson, description, stack, doc, shouldWrite, file, events>>

(***************************************************************************)
(* Bounds of the model.                                                    *)
(***************************************************************************)
MaxProjects == 3   \* longest project list
MaxDeps == 2       \* most dependency declarations in a project list
MaxLen == 3        \* longest argument of sanitizeMermaid

(***************************************************************************)
(* Strings.                                                                *)
(***************************************************************************)
Char(str, i) == SubSeq(str, i, i)

RECURSIVE SplitFrom(_, _, _, _)
\* String.prototype.split(sep) for a one-character separator: the pieces
\* between the separators; the empty string splits into one empty piece.
SplitFrom(str, sep, i, piece) ==
    IF i > Len(str) THEN <<piece>>
    ELSE IF Char(str, i) = sep
         THEN <<piece>> \o SplitFrom(str, sep, i + 1, "")
         ELSE SplitFrom(str, sep, i + 1, piece \o Char(str, i))

Split(str, sep) == SplitFrom(str, sep, 1, "")

RECURSIVE Join(_, _)
\* Array.prototype.join(sep)
Join(strs, sep) ==
    IF Len(strs) = 0 THEN ""
    ELSE IF Len(strs) = 1 THEN strs[1]
    ELSE strs[1] \o sep \o Join(Tail(strs), sep)

RECURSIVE TrimStart(_)
TrimStart(str) ==
    IF Len(str) > 0 /\ Char(str, 1) = " " THEN TrimStart(SubSeq(str, 2, Len(str)))
    ELSE str

RECURSIVE TrimEnd(_)
TrimEnd(str) ==
    IF Len(str) > 0 /\ Char(str, Len(str)) = " "
    THEN TrimEnd(SubSeq(str, 1, Len(str) - 1))
    ELSE str

\* String.prototype.trim() (the inputs hold no other white space than " ")
Trim(str) == TrimEnd(TrimStart(str))

Range(sq) == {sq[i] : i \in 1..Len(sq)}

(***************************************************************************)
(* type Node = { inner, name, projectName?, root }.  The forest is a heap  *)
(* of nodes in creation order; a node's `inner` array holds the nodes      *)
(* whose parent it is, in creation order (push appends), and the array     *)
(* `tree` holds the nodes of parent TreeTop.  A reference to an array is   *)
(* the id of the node owning it.  projectName is <<>> when undefined.      *)
(***************************************************************************)
TreeTop == 0
Null == 0

Node(name, parent, isRoot) ==
    [name |-> name, parent |-> parent, projectName |-> <<>>, root |-> isRoot]

RECURSIVE InnerFrom(_, _, _)
InnerFrom(ns, owner, i) ==
    IF i > Len(ns) THEN <<>>
    ELSE (IF ns[i].parent = owner THEN <<i>> ELSE <<>>) \o InnerFrom(ns, owner, i + 1)

\* the array owned by `owner`, as the sequence of the ids of its elements
Inner(ns, owner) == InnerFrom(ns, owner, 1)

\* current.find((c) => c.name === part): the first match, or Null
Find(ns, current, part) ==
    LET hits == {i \in 1..Len(ns) : ns[i].parent = current /\ ns[i].name = part}
    IN IF hits = {} THEN Null ELSE CHOOSE i \in hits : \A j \in hits : i <= j

RECURSIVE WalkParts(_, _, _, _, _, _)
\* for (const part of parts) { ... } of createNodeTree
WalkParts(ns, current, leaf, parts, k, project) ==
    IF k > Len(parts) THEN [nodes |-> ns, leaf |-> leaf]
    ELSE LET existingNode == Find(ns, current, parts[k]) IN
         IF existingNode # Null
         THEN WalkParts(ns, existingNode, leaf, parts, k + 1, project)
         ELSE LET newNode == Node(parts[k], current, project.path = "")
                  pushed == Append(ns, newNode)
              IN WalkParts(pushed, Len(pushed), Len(pushed), parts, k + 1, project)

\* one iteration of `for (const project of projects)` of createNodeTree
AddProject(ns, project) ==
    LET parts == Split(project.path, "/")
        top == Inner(ns, TreeTop)
        current == IF Len(top) > 0 THEN top[1] ELSE TreeTop
        walked == WalkParts(ns, current, Null, parts, 1, project)
    IN IF walked.leaf # Null
       THEN [walked.nodes EXCEPT ![walked.leaf].projectName = <<project.name>>]
       ELSE walked.nodes

RECURSIVE AddProjects(_, _, _)
AddProjects(ns, ps, i) ==
    IF i > Len(ps) THEN ns ELSE AddProjects(AddProject(ns, ps[i]), ps, i + 1)

\* createNodeTree with `tree` declared outside the function: an invocation
\* goes on from the forest of the invocation before it
createNodeTreeShared(ps) ==
    AddProjects(IF previous = <<>> THEN <<>> ELSE previous[1].nodes, ps, 1)

createNodeTree(ps) == AddProjects(<<>>, ps, 1)

(***************************************************************************)
(* generateFolderTree                                                      *)
(***************************************************************************)
BranchConnector == "|-- "
CornerConnector == "+-- "
VerticalGuide == "|   "
BlankIndent == "    "
RootPlaceholder == "(root)"
Fence == "~~~"

\* ChildPrefix without the case of the root node
ChildPrefixOfDirectory(isLastItem, isRoot) ==
    IF isLastItem THEN BlankIndent ELSE VerticalGuide

ChildPrefix(isLastItem, isRoot) ==
    IF isLastItem THEN (IF isRoot THEN "" ELSE BlankIndent) ELSE VerticalGuide

RECURSIVE renderTree(_, _, _, _)
\* renderTree(nodes, prefix), from the element at `index` of the array on
renderTree(ns, arr, index, prefix) ==
    IF index > Len(arr) THEN <<>>
    ELSE LET node == ns[arr[index]]
             isLastItem == index = Len(arr)
             connector == IF isLastItem THEN CornerConnector ELSE BranchConnector
             line == IF node.root
                     THEN prefix \o (IF node.projectName # <<>>
                                     THEN node.projectName[1] ELSE RootPlaceholder)
                     ELSE prefix \o connector \o node.name
             inner == Inner(ns, arr[index])
             below == IF Len(inner) > 0
                      THEN renderTree(ns, inner, 1,
                                      prefix \o ChildPrefix(isLastItem, node.root))
                      ELSE <<>>
         IN <<line>> \o below \o renderTree(ns, arr, index + 1, prefix)

TreeBody(ns) == renderTree(ns, Inner(ns, TreeTop), 1, "")

generateFolderTree(ns) == <<Fence>> \o TreeBody(ns) \o <<Fence>>

(***************************************************************************)
(* Plain objects and Maps.  Both are sequences of entries in insertion     *)
(* order; Object.entries lists the keys that are array indices first, in   *)
(* ascending numeric order, and then the other keys in insertion order     *)
(* (OrdinaryOwnPropertyKeys), while Map.prototype.forEach visits the       *)
(* entries in insertion order.  No key of the project lists below is the   *)
(* name of a property of Object.prototype, so a lookup finds own keys      *)
(* only.                                                                   *)
(***************************************************************************)
Digits == <<"0", "1", "2", "3", "4", "5", "6", "7", "8", "9">>

IsDigit(c) == \E d \in 1..Len(Digits) : Digits[d] = c

DigitValue(c) == (CHOOSE d \in 1..Len(Digits) : Digits[d] = c) - 1

\* a canonical numeric string: digits only, no leading zero except "0"
IsCanonicalNumeric(key) ==
    /\ Len(key) > 0
    /\ \A i \in 1..Len(key) : IsDigit(Char(key, i))
    /\ Len(key) > 1 => Char(key, 1) # "0"

RECURSIVE DigitsLess(_, _, _)
DigitsLess(a, b, i) ==
    IF i > Len(a) THEN FALSE
    ELSE IF Char(a, i) # Char(b, i)
         THEN DigitValue(Char(a, i)) < DigitValue(Char(b, i))
         ELSE DigitsLess(a, b, i + 1)

\* a < b as numbers, for canonical numeric strings
NumericLess(a, b) ==
    Len(a) < Len(b) \/ (Len(a) = Len(b) /\ DigitsLess(a, b, 1))

MaxArrayIndexPlusOne == "4294967295"

\* an array index is a canonical numeric string below 2^32 - 1
IsArrayIndex(key) ==
    IsCanonicalNumeric(key) /\ NumericLess(key, MaxArrayIndexPlusOne)

RECURSIVE AscendingKeys(_)
\* the entries of a set of entries with array-index keys, ascending
AscendingKeys(entries) ==
    IF entries = {} THEN <<>>
    ELSE LET least == CHOOSE e \in entries :
                          \A f \in entries : f = e \/ NumericLess(e.key, f.key)
         IN <<least>> \o AscendingKeys(entries \ {least})

ObjectEntries(obj) ==
    LET IsIndex(e) == IsArrayIndex(e.key)
        IsName(e) == ~IsArrayIndex(e.key)
    IN AscendingKeys(Range(SelectSeq(obj, IsIndex))) \o SelectSeq(obj, IsName)

HasKey(m, key) == \E i \in 1..Len(m) : m[i].key = key

KeyIndex(m, key) == CHOOSE i \in 1..Len(m) : m[i].key = key

\* obj[key] = value, map.set(key, value): an existing key keeps its place
SetKey(m, key, value) ==
    IF HasKey(m, key)
    THEN [m EXCEPT ![KeyIndex(m, key)].value = value]
    ELSE Append(m, [key |-> key, value |-> value])

\* SetAddAll on an array in place of a Set: every value is kept
SetAddAllKept(set, values) == set \o values

RECURSIVE SetAddAll(_, _)
\* for (const dep of values) set.add(dep): a Set keeps its first insertion
SetAddAll(set, values) ==
    IF Len(values) = 0 THEN set
    ELSE SetAddAll(IF Head(values) \in Range(set) THEN set
                   ELSE Append(set, Head(values)), Tail(values))

(***************************************************************************)
(* sanitizeMermaid: s.replace(/[@/-]/g, "_")                               *)
(***************************************************************************)
SanitizedChars == {"@", "/", "-"}

RECURSIVE ReplaceAllFrom(_, _)
ReplaceAllFrom(str, i) ==
    IF i > Len(str) THEN ""
    ELSE (IF Char(str, i) \in SanitizedChars THEN "_" ELSE Char(str, i))
         \o ReplaceAllFrom(str, i + 1)

RECURSIVE ReplaceFirstFrom(_, _)
\* sanitizeMermaid with the pattern /[@/-]/, without the flag g
ReplaceFirstFrom(str, i) ==
    IF i > Len(str) THEN ""
    ELSE IF Char(str, i) \in SanitizedChars THEN "_" \o SubSeq(str, i + 1, Len(str))
    ELSE Char(str, i) \o ReplaceFirstFrom(str, i + 1)

sanitizeMermaidFirstOnly(str) == ReplaceFirstFrom(str, 1)

sanitizeMermaid(str) == ReplaceAllFrom(str, 1)

(***************************************************************************)
(* generateDependencyGraph (src/unnamed/part_002).  A line of the graph is *)
(* a record: its text, and what the text states.                           *)
(***************************************************************************)
Line(kind, id, label, targets, text) ==
    [kind |-> kind, id |-> id, label |-> label, targets |-> targets, text |-> text]

HeaderLine == Line("graph", "TD", "", <<>>, "graph TD")

SubgraphLine(subgraph) ==
    Line("subgraph", subgraph, "", <<>>, "  subgraph " \o subgraph)

NodeLine(indent, project) ==
    Line("node", sanitizeMermaid(project.name), project.name, <<>>,
         indent \o sanitizeMermaid(project.name) \o "[\"" \o project.name \o "\"]")

EndLine == Line("end", "", "", <<>>, "  end")

EdgeLine(source, targets, deps) ==
    Line("edge", source, "", targets, "  " \o source \o " --> " \o deps)

FirstSegment(path) == Split(path, "/")[1]

RECURSIVE GroupProjects(_, _, _)
\* "Group per first level directory"
GroupProjects(subgraphs, ps, i) ==
    IF i > Len(ps) THEN subgraphs
    ELSE LET project == ps[i]
             subgraph == FirstSegment(project.path)
         IN IF subgraph = "" THEN GroupProjects(subgraphs, ps, i + 1)
            ELSE LET created == IF ~HasKey(subgraphs, subgraph)
                                THEN SetKey(subgraphs, subgraph, <<>>)
                                ELSE subgraphs
                     k == KeyIndex(created, subgraph)
                 IN GroupProjects(
                        [created EXCEPT ![k].value = Append(@, project)], ps, i + 1)

RECURSIVE SubgraphBlocks(_, _)
SubgraphBlocks(entries, i) ==
    IF i > Len(entries) THEN <<>>
    ELSE <<SubgraphLine(entries[i].key)>>
         \o [j \in 1..Len(entries[i].value) |-> NodeLine("     ", entries[i].value[j])]
         \o <<EndLine>>
         \o SubgraphBlocks(entries, i + 1)

\* ResolveDependency returning the whole path of the project found
ResolveDependencyToPath(ps, dep) ==
    LET hits == {i \in 1..Len(ps) : ps[i].name = dep}
    IN IF hits = {} THEN ""
       ELSE ps[CHOOSE i \in hits : \A j \in hits : i <= j].path

\* ResolveDependency with a match on the scope of the name (the text before
\* its first "/") in place of the whole name
ResolveDependencyByScope(ps, dep) ==
    LET hits == {i \in 1..Len(ps) : Split(ps[i].name, "/")[1] = Split(dep, "/")[1]}
    IN IF hits = {} THEN ""
       ELSE FirstSegment(ps[CHOOSE i \in hits : \A j \in hits : i <= j].path)

\* projects.find((p) => p.name === dep), then the first path segment, or ""
ResolveDependency(ps, dep) ==
    LET hits == {i \in 1..Len(ps) : ps[i].name = dep}
    IN IF hits = {} THEN ""
       ELSE FirstSegment(ps[CHOOSE i \in hits : \A j \in hits : i <= j].path)

RECURSIVE CollectDependenciesOfAll(_, _, _)
\* CollectDependencies without the skip of the project at path ""
CollectDependenciesOfAll(subgraphDependencies, ps, i) ==
    IF i > Len(ps) THEN subgraphDependencies
    ELSE LET project == ps[i]
             currentSubgraph == FirstSegment(project.path)
             currentSet ==
                 IF HasKey(subgraphDependencies, currentSubgraph)
                 THEN subgraphDependencies[
                          KeyIndex(subgraphDependencies, currentSubgraph)].value
                 ELSE <<>>
             declared == project.dependencies \o project.devDependencies
             allSubgraphDependencies ==
                 [j \in 1..Len(declared) |-> ResolveDependency(ps, declared[j])]
         IN CollectDependenciesOfAll(
                SetKey(subgraphDependencies, currentSubgraph,
                       SetAddAll(currentSet, allSubgraphDependencies)),
                ps, i + 1)

RECURSIVE CollectDependencies(_, _, _)
\* the loop filling subgraphDependencies
CollectDependencies(subgraphDependencies, ps, i) ==
    IF i > Len(ps) THEN subgraphDependencies
    ELSE LET project == ps[i] IN
         IF project.path = "" THEN CollectDependencies(subgraphDependencies, ps, i + 1)
         ELSE LET currentSubgraph == FirstSegment(project.path)
                  currentSet ==
                      IF HasKey(subgraphDependencies, currentSubgraph)
                      THEN subgraphDependencies[
                               KeyIndex(subgraphDependencies, currentSubgraph)].value
                      ELSE <<>>
                  declared == project.dependencies \o project.devDependencies
                  allSubgraphDependencies ==
                      [j \in 1..Len(declared) |-> ResolveDependency(ps, declared[j])]
              IN CollectDependencies(
                     SetKey(subgraphDependencies, currentSubgraph,
                            SetAddAll(currentSet, allSubgraphDependencies)),
                     ps, i + 1)

\* EdgeTargets without the test x !== subgraph
EdgeTargetsWithSelf(dependencies, subgraph) ==
    LET Keep(x) == x # "" IN SelectSeq(dependencies, Keep)

\* EdgeTargets without the test for the empty key
EdgeTargetsWithEmpty(dependencies, subgraph) ==
    LET Keep(x) == x # subgraph IN SelectSeq(dependencies, Keep)

\* [...dependencies].filter((x) => x && x !== subgraph)
EdgeTargets(dependencies, subgraph) ==
    LET Keep(x) == x # "" /\ x # subgraph IN SelectSeq(dependencies, Keep)

RECURSIVE EdgeStatements(_, _)
\* subgraphDependencies.forEach(...)
EdgeStatements(subgraphDependencies, i) ==
    IF i > Len(subgraphDependencies) THEN <<>>
    ELSE LET subgraph == subgraphDependencies[i].key
             targets == EdgeTargets(subgraphDependencies[i].value, subgraph)
             deps == Trim(Join(targets, " & "))
         IN (IF deps # "" THEN <<EdgeLine(subgraph, targets, deps)>> ELSE <<>>)
            \o EdgeStatements(subgraphDependencies, i + 1)

OpenFenceLine == Line("fence", "mermaid", "", <<>>, Fence \o "mermaid")

CloseFenceLine == Line("fence", "", "", <<>>, Fence)

generateDependencyGraph(ps) ==
    <<OpenFenceLine, HeaderLine>>
    \o SubgraphBlocks(ObjectEntries(GroupProjects(<<>>, ps, 1)), 1)
    \o EdgeStatements(CollectDependencies(<<>>, ps, 1), 1)
    \o <<CloseFenceLine>>

(***************************************************************************)
(* src/src/index.ts: generateFolderTree builds a map of plain objects (a   *)
(* directory is an object, the last segment of a path is null) and renders *)
(* it; generateDependencyGraph declares one node for each project and one  *)
(* edge for each dependency that names a project.                          *)
(***************************************************************************)
Entry(name, parent, isNull) == [name |-> name, parent |-> parent, isNull |-> isNull]

RECURSIVE WalkPartsIndex(_, _, _, _)
\* parts.forEach((part, index) => { ... }) of generateFolderTree
WalkPartsIndex(ns, current, parts, index) ==
    IF index > Len(parts) THEN ns
    ELSE LET existing == Find(ns, current, parts[index])
             isLastPart == index = Len(parts)
         IN IF existing = Null
            THEN LET pushed == Append(ns, Entry(parts[index], current, isLastPart))
                 IN WalkPartsIndex(pushed, Len(pushed), parts, index + 1)
            ELSE IF ns[existing].isNull
            THEN WalkPartsIndex([ns EXCEPT ![existing].isNull = isLastPart],
                                existing, parts, index + 1)
            ELSE WalkPartsIndex(ns, existing, parts, index + 1)

RECURSIVE BuildMapIndex(_, _, _)
BuildMapIndex(ns, ps, i) ==
    IF i > Len(ps) THEN ns
    ELSE BuildMapIndex(WalkPartsIndex(ns, TreeTop, Split(ps[i].path, "/"), 1), ps, i + 1)

\* Object.entries(node || {}) of the object owned by `owner`, as entry ids
EntriesIndex(ns, owner) ==
    LET own == Inner(ns, owner)
        listed == ObjectEntries([k \in 1..Len(own) |->
                                    [key |-> ns[own[k]].name, value |-> own[k]]])
    IN [k \in 1..Len(listed) |-> listed[k].value]

RECURSIVE renderTreeIndex(_, _, _, _, _)
\* renderTree(node, prefix, isLast), from the entry at `index` on
renderTreeIndex(ns, entries, index, prefix, isLast) ==
    IF index > Len(entries) THEN <<>>
    ELSE LET isLastItem == index = Len(entries)
             connector == IF isLast THEN CornerConnector ELSE BranchConnector
             childPrefix == IF isLast THEN BlankIndent ELSE VerticalGuide
             entry == ns[entries[index]]
             below == IF ~entry.isNull
                      THEN renderTreeIndex(ns, EntriesIndex(ns, entries[index]), 1,
                                           prefix \o childPrefix, isLastItem)
                      ELSE <<>>
         IN <<prefix \o connector \o entry.name>> \o below
            \o renderTreeIndex(ns, entries, index + 1, prefix, isLast)

generateFolderTreeIndex(ps) ==
    LET built == BuildMapIndex(<<>>, ps, 1)
    IN <<Fence>> \o renderTreeIndex(built, EntriesIndex(built, TreeTop), 1, "", TRUE)
       \o <<Fence>>

\* project.dependencies.filter((dep) => projects.some((p) => p.name === dep))
WorkspaceDeps(ps, project) ==
    LET InWorkspace(dep) == \E i \in 1..Len(ps) : ps[i].name = dep
    IN SelectSeq(project.dependencies, InWorkspace)

EdgeLineIndex(project, dep) ==
    Line("edge", sanitizeMermaid(project.name), "", <<sanitizeMermaid(dep)>>,
         "  " \o sanitizeMermaid(project.name) \o " --> " \o sanitizeMermaid(dep))

RECURSIVE EdgeStatementsIndex(_, _)
EdgeStatementsIndex(ps, i) ==
    IF i > Len(ps) THEN <<>>
    ELSE LET workspaceDeps == WorkspaceDeps(ps, ps[i])
         IN [j \in 1..Len(workspaceDeps) |-> EdgeLineIndex(ps[i], workspaceDeps[j])]
            \o EdgeStatementsIndex(ps, i + 1)

generateDependencyGraphIndex(ps) ==
    <<OpenFenceLine, HeaderLine>>
    \o [i \in 1..Len(ps) |-> NodeLine("  ", ps[i])]
    \o EdgeStatementsIndex(ps, 1)
    \o <<CloseFenceLine>>

(***************************************************************************)
(* The project lists: what getPnpmWorkspaceProjects can return.  Names are *)
(* unique and paths are unique (path.relative of distinct package          *)
(* directories), at most one project has path "".                          *)
(***************************************************************************)
Root == [name |-> "root", path |-> ""]
Pkgs == [name |-> "pkgs", path |-> "packages"]
PkgA == [name |-> "pkg-a", path |-> "packages/a"]
Core == [name |-> "@x/core", path |-> "packages/core"]
Api == [name |-> "@x/api", path |-> "services/api"]
One == [name |-> "one", path |-> "1/x"]
PkgB == [name |-> "pkg_a", path |-> "packages/b"]

Candidates == {Root, Pkgs, PkgA, Core, Api, One, PkgB}

\* the lists that declare dependencies are the sublists of this one
DeclaringOrder == <<PkgA, Core, Api, Root>>

External == "left-pad"

RECURSIVE ListsUpTo(_)
\* the lists of at most n distinct candidates, in every order
ListsUpTo(n) ==
    IF n = 0 THEN {<<>>}
    ELSE LET shorter == ListsUpTo(n - 1)
         IN shorter \cup
            UNION {{Append(l, c) : c \in Candidates \ Range(l)} : l \in shorter}

RECURSIVE Pick(_, _, _)
\* the sublist of sq of the elements whose index is in I
Pick(sq, I, i) ==
    IF i > Len(sq) THEN <<>>
    ELSE (IF i \in I THEN <<sq[i]>> ELSE <<>>) \o Pick(sq, I, i + 1)

RECURSIVE SubsetsUpTo(_, _)
\* the subsets of S of at most k elements
SubsetsUpTo(S, k) ==
    IF k = 0 THEN {{}}
    ELSE LET smaller == SubsetsUpTo(S, k - 1)
         IN smaller \cup {D \cup {e} : D \in smaller, e \in S}

\* A dependency declaration of a list of n projects is a number d: project
\* DeclaredBy(d) lists the name DeclaredName(d) (the name of another project
\* of the list, or External) under dependencies or under devDependencies.
DeclarationsOf(n) == 0..(2 * n * n - 1)

DeclaredBy(n, d) == (d \div (2 * n)) + 1

DeclaredAsDev(n, d) == (d \div n) % 2 = 1

DeclaredName(l, d) ==
    LET by == DeclaredBy(Len(l), d)
        j == (d % Len(l)) + 1
    IN IF j = Len(l) THEN External
       ELSE IF j < by THEN l[j].name ELSE l[j + 1].name

\* what project i lists under dependencies (dev = FALSE) or devDependencies
Declared(l, D, i, dev) ==
    LET n == Len(l)
        Mine(d) == d \in D /\ DeclaredBy(n, d) = i /\ DeclaredAsDev(n, d) = dev
        mine == SelectSeq([k \in 1..(2 * n * n) |-> k - 1], Mine)
    IN [k \in 1..Len(mine) |-> DeclaredName(l, mine[k])]

Project(l, D, i) ==
    [name |-> l[i].name, path |-> l[i].path,
     dependencies |-> Declared(l, D, i, FALSE),
     devDependencies |-> Declared(l, D, i, TRUE)]

Workspace(l, D) == [i \in 1..Len(l) |-> Project(l, D, i)]

\* every order of at most MaxProjects candidates, declaring no dependency
InitPlain == \E l \in ListsUpTo(MaxProjects) : projects = Workspace(l, {})

\* the sublists of DeclaringOrder of at most MaxProjects projects, with at
\* most MaxDeps dependency declarations
InitDeclaring ==
    \E I \in SubsetsUpTo(1..Len(DeclaringOrder), MaxProjects) :
        \E D \in SubsetsUpTo(DeclarationsOf(Cardinality(I)), MaxDeps) :
            projects = Workspace(Pick(DeclaringOrder, I, 1), D)

(***************************************************************************)
(* generateArchitectureDoc, on one project list.  In src/unnamed/part_002: *)
(* nodes = createNodeTree(projects), tree = generateFolderTree(nodes),     *)
(* graph = generateDependencyGraph(projects); in src/src/index.ts:         *)
(* tree = generateFolderTree(projects), graph =                            *)
(* generateDependencyGraph(projects).  The list may be handed to           *)
(* generateArchitectureDoc a second time.                                  *)
(***************************************************************************)
Variants == {"part_002", "index.ts"}

NoText == <<>>

\* the generateDependencyGraph of the source file v
GraphOf(v, ps) ==
    IF v = "part_002" THEN generateDependencyGraph(ps)
    ELSE generateDependencyGraphIndex(ps)

FirstStep(v) == IF v = "part_002" THEN "createNodeTree" ELSE "generateFolderTree"

Idle == /\ s = ""
        /\ once = ""
        /\ twice = ""
        /\ applied = 0

NoOptions == [ai |-> "off", yes |-> FALSE, OPENAI_API_KEY |-> FALSE]

NothingDiscovered == [pnpm |-> "ok", packages |-> <<>>]

NoManifest == [name |-> "", description |-> <<>>]

\* program.action is not running: the functions are called on their own
Direct ==
    /\ options = NoOptions
    /\ discovered = NothingDiscovered
    /\ phase = "notRunning"
    /\ returned = <<>>
    /\ error = <<>>
    /\ aiSettings = [useAI |-> FALSE]
    /\ rootPackageJson = NoManifest
    /\ description = <<>>
    /\ stack = ""
    /\ doc = <<>>
    /\ shouldWrite = TRUE
    /\ file = <<>>
    /\ events = <<>>

Init ==
    /\ (InitPlain \/ InitDeclaring)
    /\ variant \in Variants
    /\ pc = FirstStep(variant)
    /\ nodes = <<>>
    /\ tree = NoText
    /\ graph = NoText
    /\ previous = <<>>
    /\ Idle
    /\ Direct

CreateNodeTree ==
    /\ pc = "createNodeTree"
    /\ variant = "part_002"
    /\ nodes' = createNodeTree(projects)
    /\ pc' = "generateFolderTree"
    /\ UNCHANGED <<projects, tree, graph, previous, variant, s, once, twice, applied,
                 options, discovered, phase, returned, error, aiSettings,
                 rootPackageJson, description, stack, doc, shouldWrite, file, events>>

GenerateFolderTree ==
    /\ pc = "generateFolderTree"
    /\ tree' = IF variant = "part_002" THEN generateFolderTree(nodes)
               ELSE generateFolderTreeIndex(projects)
    /\ pc' = "generateDependencyGraph"
    /\ UNCHANGED <<projects, nodes, graph, previous, variant, s, once, twice, applied,
                 options, discovered, phase, returned, error, aiSettings,
                 rootPackageJson, description, stack, doc, shouldWrite, file, events>>

GenerateDependencyGraph ==
    /\ pc = "generateDependencyGraph"
    /\ graph' = GraphOf(variant, projects)
    /\ pc' = "done"
    /\ UNCHANGED <<projects, nodes, tree, previous, variant, s, once, twice, applied,
                 options, discovered, phase, returned, error, aiSettings,
                 rootPackageJson, description, stack, doc, shouldWrite, file, events>>

\* a second invocation: its locals are new, what the first built is kept
\* aside for comparison
InvokeAgain ==
    /\ pc = "done"
    /\ previous = <<>>
    /\ previous' = <<[nodes |-> nodes, tree |-> tree, graph |-> graph]>>
    /\ pc' = FirstStep(variant)
    /\ nodes' = <<>>
    /\ tree' = NoText
    /\ graph' = NoText
    /\ UNCHANGED <<projects, variant, s, once, twice, applied,
                 options, discovered, phase, returned, error, aiSettings,
                 rootPackageJson, description, stack, doc, shouldWrite, file, events>>

Next ==
    \/ CreateNodeTree
    \/ GenerateFolderTree
    \/ GenerateDependencyGraph
    \/ InvokeAgain

Spec == Init /\ [][Next]_vars

(***************************************************************************)
(* sanitizeMermaid on its own: applied to a string, and to its result.     *)
(***************************************************************************)
Alphabet == {"@", "/", "-", "_", "a"}

RECURSIVE StringsUpTo(_)
StringsUpTo(n) ==
    IF n = 0 THEN {""}
    ELSE LET shorter == StringsUpTo(n - 1)
         IN shorter \cup {str \o c : str \in shorter, c \in Alphabet}

InitSanitize ==
    /\ s \in StringsUpTo(MaxLen)
    /\ once = ""
    /\ twice = ""
    /\ applied = 0
    /\ projects = <<>>
    /\ variant = "part_002"
    /\ pc = "sanitizeMermaid"
    /\ nodes = <<>>
    /\ tree = NoText
    /\ graph = NoText
    /\ previous = <<>>
    /\ Direct

Sanitize ==
    /\ pc = "sanitizeMermaid"
    /\ applied = 0
    /\ once' = sanitizeMermaid(s)
    /\ applied' = 1
    /\ UNCHANGED <<projects, pc, nodes, tree, graph, previous, variant, s, twice,
                 options, discovered, phase, returned, error, aiSettings,
                 rootPackageJson, description, stack, doc, shouldWrite, file, events>>

SanitizeAgain ==
    /\ pc = "sanitizeMermaid"
    /\ applied = 1
    /\ twice' = sanitizeMermaid(once)
    /\ applied' = 2
    /\ UNCHANGED <<projects, pc, nodes, tree, graph, previous, variant, s, once,
                 options, discovered, phase, returned, error, aiSettings,
                 rootPackageJson, description, stack, doc, shouldWrite, file, events>>

NextSanitize == Sanitize \/ SanitizeAgain

SpecSanitize == InitSanitize /\ [][NextSanitize]_vars

(***************************************************************************)
(* getPnpmWorkspaceProjects.  What it reads: whether `pnpm ls` ran and     *)
(* printed JSON, the records it printed (name, absolute path), and for     *)
(* each record the package.json at that path: unreadable (missing, or not  *)
(* JSON), of another shape than packageJsonSchema, or accepted, with the   *)
(* keys of its dependencies and devDependencies.  The fields               *)
(* namespacePrefix and description of a project, which only the prompt of  *)
(* generateTechStackWithAI reads, are left out.                            *)
(***************************************************************************)
RootPath == "/r"

\* path.relative(rootPath, p), for a directory p at or below rootPath
Relative(rootPath, p) ==
    IF p = rootPath THEN "" ELSE SubSeq(p, Len(rootPath) + 2, Len(p))

\* WorkspaceProjectSchema.safeParse(...).success: name and path are strings
\* of at least one character
WorkspaceProjectSchema(packages) ==
    \A i \in 1..Len(packages) : Len(packages[i].name) >= 1 /\ Len(packages[i].path) >= 1

\* JSON.parse(fs.readFileSync(...)) returns and packageJsonSchema accepts it
packageJsonSchema(pkg) == pkg.manifest.state = "accepted"

\* the record the callback of packages.map returns
ValidatedPackage(rootPath, pkg) ==
    [name |-> pkg.name, path |-> Relative(rootPath, pkg.path),
     dependencies |-> pkg.manifest.dependencies,
     devDependencies |-> pkg.manifest.devDependencies]

\* try { ... return validatedPackages } catch (error) { ... return [] }:
\* execSync or JSON.parse throws, or one of the two validations throws, and
\* the catch block returns the empty list
getPnpmWorkspaceProjects(rootPath, found) ==
    IF found.pnpm # "ok" THEN <<>>
    ELSE IF ~WorkspaceProjectSchema(found.packages) THEN <<>>
    ELSE IF \E i \in 1..Len(found.packages) : ~packageJsonSchema(found.packages[i])
    THEN <<>>
    ELSE [i \in 1..Len(found.packages) |-> ValidatedPackage(rootPath, found.packages[i])]

(***************************************************************************)
(* enhanceDescriptionWithAI and generateTechStackWithAI.  generateText     *)
(* either throws or returns a text, which may be empty.  The root          *)
(* package.json reaches the fallback as the text JSON.stringify made of    *)
(* it; its strings hold no character that JSON escapes.                    *)
(***************************************************************************)
DefaultDescription == "A monorepo project managed with pnpm workspaces."

Quoted(str) == "\"" \o str \o "\""

\* JSON.stringify(rootPackageJson): a key whose value is undefined is left out
JSONStringify(packageJson) ==
    "{" \o Quoted("name") \o ":" \o Quoted(packageJson.name)
    \o (IF packageJson.description # <<>>
        THEN "," \o Quoted("description") \o ":" \o Quoted(packageJson.description[1])
        ELSE "")
    \o "}"

\* the least index at or after i at which `piece` starts in text, or 0
RECURSIVE IndexOf(_, _, _)
IndexOf(text, piece, i) ==
    IF i + Len(piece) - 1 > Len(text) THEN 0
    ELSE IF SubSeq(text, i, i + Len(piece) - 1) = piece THEN i
    ELSE IndexOf(text, piece, i + 1)

\* JSON.parse(text).description, for the texts of JSONStringify: threw when
\* the text is no JSON value, <<>> when the object has no such key
JSONParseDescription(text) ==
    LET key == Quoted("description") \o ":" \o "\""
        at == IndexOf(text, key, 1)
        from == at + Len(key)
        to == IndexOf(text, "\"", from)
    IN IF Len(text) < 2 \/ Char(text, 1) # "{" \/ Char(text, Len(text)) # "}"
       THEN [threw |-> TRUE, description |-> <<>>]
       ELSE IF at = 0 THEN [threw |-> FALSE, description |-> <<>>]
       ELSE [threw |-> FALSE, description |-> <<SubSeq(text, from, to - 1)>>]

\* the catch block of enhanceDescriptionWithAI:
\* packageJson.description || "A monorepo project managed with pnpm workspaces."
FallbackDescription(packageJsonContents) ==
    LET packageJson == JSONParseDescription(packageJsonContents)
    IN IF packageJson.threw THEN [threw |-> TRUE, value |-> ""]
       ELSE IF packageJson.description # <<>> /\ packageJson.description[1] # ""
       THEN [threw |-> FALSE, value |-> packageJson.description[1]]
       ELSE [threw |-> FALSE, value |-> DefaultDescription]

\* enhanceDescriptionWithAI without `if (!description) throw ...`
enhanceDescriptionWithAIUnchecked(generated, packageJsonContents) ==
    IF generated.threw THEN FallbackDescription(packageJsonContents)
    ELSE [threw |-> FALSE, value |-> generated.text]

\* `generated` is what generateText did: threw, or returned { text }
enhanceDescriptionWithAI(generated, packageJsonContents) ==
    IF generated.threw \/ generated.text = ""
    THEN FallbackDescription(packageJsonContents)
    ELSE [threw |-> FALSE, value |-> generated.text]

generateTechStackWithAI(generated) ==
    IF generated.threw THEN "" ELSE generated.text

(***************************************************************************)
(* program.action (src/unnamed/part_002): the options, what discovery      *)
(* finds, and the steps of the handler.  What a collaborator answers       *)
(* (fs.readJSON, generateText, inquirer.prompt, fs.writeFile) is chosen    *)
(* when it is called.                                                      *)
(***************************************************************************)
MaxRecords == 2    \* most records `pnpm ls` prints

\* the records `pnpm ls` prints are the sublists of this one
DiscoveryOrder == <<Root, Core, Api>>

\* what is wrong with a record: nothing, an empty name, a package.json that
\* cannot be read or parsed, a package.json of another shape
Flaws == {"none", "name", "unreadable", "shape"}

Declares(c) == IF c = Api THEN <<Core.name, External>> ELSE <<>>

Package(c, flaw) ==
    [name |-> IF flaw = "name" THEN "" ELSE c.name,
     path |-> IF c.path = "" THEN RootPath ELSE RootPath \o "/" \o c.path,
     manifest |-> [state |-> IF flaw \in {"unreadable", "shape"} THEN flaw ELSE "accepted",
                   dependencies |-> Declares(c),
                   devDependencies |-> <<>>]]

Packages(I, flaw) ==
    LET picked == Pick([k \in 1..Len(DiscoveryOrder) |-> k], I, 1)
    IN [k \in 1..Len(picked) |-> Package(DiscoveryOrder[picked[k]], flaw[picked[k]])]

RootManifests ==
    {[name |-> "repo", description |-> d] : d \in {<<>>, <<"">>, <<"A repo.">>}}

\* what generateText does
Generated ==
    {[threw |-> TRUE, text |-> ""], [threw |-> FALSE, text |-> ""],
     [threw |-> FALSE, text |-> "An AI text."]}

\* compiledTemplate({ name, description, stack, tree, graph }): the values
\* that fill the template, an undefined description as the empty string
Template(name, about, technicalStack, folderTree, dependencyGraph) ==
    [name |-> name,
     description |-> IF about = <<>> THEN "" ELSE about[1],
     stack |-> technicalStack,
     tree |-> folderTree,
     graph |-> dependencyGraph]

Call(name, result) == [call |-> name, result |-> result]

InitCli ==
    /\ \E ai \in {"off", "flag", "key"} : \E yes \in BOOLEAN : \E key \in BOOLEAN :
          options = [ai |-> ai, yes |-> yes, OPENAI_API_KEY |-> key]
    /\ \/ \E failed \in {"fails", "notJson"} :
             discovered = [pnpm |-> failed, packages |-> <<>>]
       \/ \E I \in SubsetsUpTo(1..Len(DiscoveryOrder), MaxRecords) :
             \E flaw \in [I -> Flaws] :
                discovered = [pnpm |-> "ok", packages |-> Packages(I, flaw)]
    /\ phase = "action"
    /\ returned = <<>>
    /\ error = <<>>
    /\ aiSettings = [useAI |-> FALSE]
    /\ rootPackageJson = NoManifest
    /\ description = <<>>
    /\ stack = ""
    /\ doc = <<>>
    /\ shouldWrite = TRUE
    /\ file = <<>>
    /\ events = <<>>
    /\ projects = <<>>
    /\ variant = "part_002"
    /\ pc = "notInvoked"
    /\ nodes = <<>>
    /\ tree = NoText
    /\ graph = NoText
    /\ previous = <<>>
    /\ Idle

\* what no step of program.action outside generateArchitectureDoc assigns
coreVars == <<nodes, tree, graph, previous, variant, s, once, twice, applied>>

\* lines 437-468: the AI settings, or the error of a missing key
ProgramAction ==
    /\ phase = "action"
    /\ IF options.ai # "off" /\ ~options.OPENAI_API_KEY /\ options.ai # "key"
       THEN /\ error' = <<"OPENAI_API_KEY is required for AI enhancement">>
            /\ phase' = "rejected"
            /\ UNCHANGED aiSettings
       ELSE /\ aiSettings' = [useAI |-> options.ai # "off"]
            /\ phase' = "getPnpmWorkspaceProjects"
            /\ UNCHANGED error
    /\ UNCHANGED <<projects, pc, options, discovered, returned, rootPackageJson,
                   description, stack, doc, shouldWrite, file, events>>
    /\ UNCHANGED coreVars

\* program.action without the return for an empty list
NoProjectsIgnored(ps) == FALSE

\* if (projects.length === 0) { ...; return; }
NoProjects(ps) == Len(ps) = 0

\* lines 470-476: discovery, and the return when it gave no project
GetPnpmWorkspaceProjects ==
    /\ phase = "getPnpmWorkspaceProjects"
    /\ LET found == getPnpmWorkspaceProjects(RootPath, discovered)
       IN /\ returned' = <<found>>
          /\ projects' = found
          /\ phase' = IF NoProjects(found) THEN "returned" ELSE "readJSON"
    /\ events' = Append(events, Call("pnpm ls", discovered.pnpm))
    /\ UNCHANGED <<pc, options, discovered, error, aiSettings, rootPackageJson,
                   description, stack, doc, shouldWrite, file>>
    /\ UNCHANGED coreVars

\* lines 363-370 of generateArchitectureDoc: fs.readJSON of the root
\* package.json rejects, or gives the manifest
ReadRootPackageJson ==
    /\ phase = "readJSON"
    /\ \/ /\ error' = <<"fs.readJSON">>
          /\ phase' = "rejected"
          /\ events' = Append(events, Call("fs.readJSON", "rejects"))
          /\ UNCHANGED <<pc, rootPackageJson, description, stack>>
       \/ \E manifest \in RootManifests :
             /\ rootPackageJson' = manifest
             /\ description' = manifest.description
             /\ stack' = ""
             /\ events' = Append(events, Call("fs.readJSON", "resolves"))
             /\ phase' = IF aiSettings.useAI THEN "enhanceDescriptionWithAI"
                         ELSE "generateArchitectureDoc"
             /\ pc' = IF aiSettings.useAI THEN pc ELSE FirstStep(variant)
             /\ UNCHANGED error
    /\ UNCHANGED <<projects, options, discovered, returned, aiSettings, doc,
                   shouldWrite, file>>
    /\ UNCHANGED coreVars

\* lines 371-392: description = await enhanceDescriptionWithAI(...)
EnhanceDescriptionWithAI ==
    /\ phase = "enhanceDescriptionWithAI"
    /\ \E generated \in Generated :
          LET enhanced == enhanceDescriptionWithAI(generated, JSONStringify(rootPackageJson))
          IN /\ events' = Append(events, Call("generateText",
                                 IF generated.threw THEN "throws"
                                 ELSE IF generated.text = "" THEN "empty" ELSE "text"))
             /\ IF enhanced.threw
                THEN /\ error' = <<"JSON.parse">>
                     /\ phase' = "rejected"
                     /\ UNCHANGED description
                ELSE /\ description' = <<enhanced.value>>
                     /\ phase' = "generateTechStackWithAI"
                     /\ UNCHANGED error
    /\ UNCHANGED <<projects, pc, options, discovered, returned, aiSettings,
                   rootPackageJson, stack, doc, shouldWrite, file>>
    /\ UNCHANGED coreVars

\* line 394: stack = await generateTechStackWithAI(...); then the tree and
\* the graph are generated
GenerateTechStackWithAI ==
    /\ phase = "generateTechStackWithAI"
    /\ \E generated \in Generated :
          /\ stack' = generateTechStackWithAI(generated)
          /\ events' = Append(events, Call("generateText",
                              IF generated.threw THEN "throws"
                              ELSE IF generated.text = "" THEN "empty" ELSE "text"))
    /\ phase' = "generateArchitectureDoc"
    /\ pc' = FirstStep(variant)
    /\ UNCHANGED <<projects, options, discovered, returned, error, aiSettings,
                   rootPackageJson, description, doc, shouldWrite, file>>
    /\ UNCHANGED coreVars

\* lines 401-410, 478-488: the document is compiled, returned and previewed
CompileTemplate ==
    /\ phase = "generateArchitectureDoc"
    /\ pc = "done"
    /\ doc' = <<Template(rootPackageJson.name, description, stack, tree, graph)>>
    /\ phase' = "preview"
    /\ UNCHANGED <<projects, pc, options, discovered, returned, error, aiSettings,
                   rootPackageJson, description, stack, shouldWrite, file, events>>
    /\ UNCHANGED coreVars

\* lines 490-504: the prompt, unless --yes was given
Confirm ==
    /\ phase = "preview"
    /\ IF ~options.yes
       THEN \/ \E answer \in BOOLEAN :
                  /\ shouldWrite' = answer
                  /\ events' = Append(events, Call("inquirer.prompt",
                                      IF answer THEN "yes" ELSE "no"))
                  /\ phase' = "write"
                  /\ UNCHANGED error
            \/ /\ events' = Append(events, Call("inquirer.prompt", "rejects"))
               /\ error' = <<"inquirer.prompt">>
               /\ phase' = "rejected"
               /\ UNCHANGED shouldWrite
       ELSE /\ phase' = "write"
            /\ UNCHANGED <<shouldWrite, events, error>>
    /\ UNCHANGED <<projects, pc, options, discovered, returned, aiSettings,
                   rootPackageJson, description, stack, doc, file>>
    /\ UNCHANGED coreVars

\* lines 506-516: ARCHITECTURE.md is written, or the run is cancelled
WriteFile ==
    /\ phase = "write"
    /\ IF shouldWrite
       THEN \/ /\ file' = doc
               /\ events' = Append(events, Call("fs.writeFile", "resolves"))
               /\ phase' = "returned"
               /\ UNCHANGED error
            \/ /\ events' = Append(events, Call("fs.writeFile", "rejects"))
               /\ error' = <<"fs.writeFile">>
               /\ phase' = "rejected"
               /\ UNCHANGED file
       ELSE /\ phase' = "returned"
            /\ UNCHANGED <<file, events, error>>
    /\ UNCHANGED <<projects, pc, options, discovered, returned, aiSettings,
                   rootPackageJson, description, stack, doc, shouldWrite>>
    /\ UNCHANGED coreVars

NextCli ==
    \/ ProgramAction
    \/ GetPnpmWorkspaceProjects
    \/ ReadRootPackageJson
    \/ EnhanceDescriptionWithAI
    \/ GenerateTechStackWithAI
    \/ CreateNodeTree
    \/ GenerateFolderTree
    \/ GenerateDependencyGraph
    \/ CompileTemplate
    \/ Confirm
    \/ WriteFile

SpecCli == InitCli /\ [][NextCli]_vars

(***************************************************************************)
(* The claims.                                                             *)
(***************************************************************************)
Names(ps) == {ps[i].name : i \in 1..Len(ps)}

NonRoot(ps) == LET HasPath(p) == p.path # "" IN SelectSeq(ps, HasPath)

RECURSIVE Distinct(_)
\* the elements of sq, each at its first occurrence
Distinct(sq) ==
    IF Len(sq) = 0 THEN <<>>
    ELSE LET front == Distinct(SubSeq(sq, 1, Len(sq) - 1))
             last == sq[Len(sq)]
         IN IF last \in Range(front) THEN front ELSE Append(front, last)

\* the first path segments of the non-root projects, in the order in which
\* the list first meets them
TopDirectories(ps) ==
    Distinct([i \in 1..Len(NonRoot(ps)) |-> FirstSegment(NonRoot(ps)[i].path)])

TreeBuilt == variant = "part_002" /\ pc \in {"generateFolderTree", "generateDependencyGraph", "done"}

TreeRendered == pc \in {"generateDependencyGraph", "done"}

GraphDone == pc = "done"

\* the lines of the tree between the fences
Body(text) == SubSeq(text, 2, Len(text) - 1)

Lines(text, kind) == LET IsKind(l) == l.kind = kind IN SelectSeq(text, IsKind)

RECURSIVE Follow(_, _, _, _)
\* the node reached from the array owned by `owner` through `inner` by the
\* segments segs[k..], or Null
Follow(ns, owner, segs, k) ==
    LET found == Find(ns, owner, segs[k])
    IN IF found = Null THEN Null
       ELSE IF k = Len(segs) THEN found
       ELSE Follow(ns, found, segs, k + 1)

\* the traversal starts at the top of the forest, or below a root node
Starts(ns) == {TreeTop} \cup {i \in 1..Len(ns) : ns[i].parent = TreeTop /\ ns[i].root}

Reaches(ns, project) ==
    IF project.path = ""
    THEN \E i \in 1..Len(ns) : /\ ns[i].parent = TreeTop
                               /\ ns[i].root
                               /\ ns[i].projectName = <<project.name>>
    ELSE \E start \in Starts(ns) :
            LET end == Follow(ns, start, Split(project.path, "/"), 1)
            IN end # Null /\ ns[end].projectName = <<project.name>>

\* C1: once createNodeTree has processed a project list (unique names, unique
\* paths), following `inner` from the top of the forest by the segments of any
\* project's path reaches a node whose projectName is that project's name, in
\* every order of the list, with or without a root project.
C1_PathReachesProject ==
    TreeBuilt => \A i \in 1..Len(projects) : Reaches(nodes, projects[i])

\* C2: when the first project is the root project, the first line of the tree
\* body is the root project's name alone, the top-level directories follow
\* with a connector and no prefix before it, and a list of the root project
\* alone renders as that one line.
HasConnector(line) ==
    Len(line) >= 4 /\ SubSeq(line, 1, 4) \in {BranchConnector, CornerConnector}

ExpectedTopLines(ps) ==
    LET dirs == TopDirectories(ps)
    IN [k \in 1..Len(dirs) |->
           (IF k = Len(dirs) THEN CornerConnector ELSE BranchConnector) \o dirs[k]]

RootFirst == Len(projects) > 0 /\ projects[1].path = ""

C2_RootLineFirst ==
    (variant = "part_002" /\ TreeRendered /\ RootFirst) =>
        /\ Body(tree)[1] = projects[1].name
        /\ Len(projects) = 1 => Body(tree) = <<projects[1].name>>
        /\ SelectSeq(Tail(Body(tree)), HasConnector) = ExpectedTopLines(projects)
        /\ Len(projects) > 1 => HasConnector(Body(tree)[2])

C2_Witness ==
    /\ variant = "part_002"
    /\ TreeRendered
    /\ RootFirst
    /\ Len(TopDirectories(projects)) >= 2
    /\ Len(Body(tree)) >= 4

\* C3: for a list of one project at path "", the graph holds exactly one node
\* declaration, that of the root project, outside any subgraph block, and no
\* subgraph block and no edge statement.
C3_SingleRootNode ==
    (variant = "part_002" /\ GraphDone /\ Len(projects) = 1 /\ projects[1].path = "") =>
        /\ Len(Lines(graph, "node")) = 1
        /\ Lines(graph, "node")[1].label = projects[1].name
        /\ Len(Lines(graph, "subgraph")) = 0
        /\ Len(Lines(graph, "edge")) = 0

\* the names project p declares, dependencies first
DeclaredNames(p) == p.dependencies \o p.devDependencies

HasProject(ps, name) == \E i \in 1..Len(ps) : ps[i].name = name

ProjectNamed(ps, name) == ps[CHOOSE i \in 1..Len(ps) : ps[i].name = name]

\* project p declares a dependency on a project of the list at a path with
\* first segment `target`
DependsOnSegment(ps, p, target) ==
    \E n \in Range(DeclaredNames(p)) :
        HasProject(ps, n) /\ FirstSegment(ProjectNamed(ps, n).path) = target

NoDuplicates(sq) == \A i, j \in 1..Len(sq) : sq[i] = sq[j] => i = j

Edges == Lines(graph, "edge")

\* C4: no edge statement lists its own source subgraph among its targets; a
\* dependency of P on Q, where P and Q share a first path segment, produces
\* no edge: a list whose resolved dependencies all stay inside one subgraph
\* has no edge statement.
C4_NoSelfEdge ==
    (variant = "part_002" /\ GraphDone) =>
        /\ \A e \in Range(Edges) : e.id \notin Range(e.targets)
        /\ (\A i \in 1..Len(projects) : \A n \in Range(DeclaredNames(projects[i])) :
                HasProject(projects, n) =>
                    FirstSegment(ProjectNamed(projects, n).path)
                        = FirstSegment(projects[i].path))
           => Len(Edges) = 0

C4_Witness ==
    /\ variant = "part_002"
    /\ GraphDone
    /\ Len(Edges) > 0
    /\ \E i, j \in 1..Len(projects) :
          /\ i # j
          /\ projects[i].path # ""
          /\ FirstSegment(projects[i].path) = FirstSegment(projects[j].path)
          /\ projects[j].name \in Range(DeclaredNames(projects[i]))

\* the list with every declared name that is no project's name removed
WithoutExternal(ps) ==
    LET Internal(n) == HasProject(ps, n)
    IN [i \in 1..Len(ps) |->
           [ps[i] EXCEPT !.dependencies = SelectSeq(@, Internal),
                         !.devDependencies = SelectSeq(@, Internal)]]

\* C5: a declared name that is no project's name contributes no edge and no
\* node: the graph is the graph of the list without such names, every node
\* declaration is that of a project of the list, and the empty key never
\* appears in an edge statement.
C5_ExternalDropped ==
    GraphDone =>
        /\ graph = GraphOf(variant, WithoutExternal(projects))
        /\ \A node \in Range(Lines(graph, "node")) :
              /\ node.label \in Names(projects)
              /\ node.id = sanitizeMermaid(node.label)
        /\ \A e \in Range(Edges) :
              /\ e.id # ""
              /\ "" \notin Range(e.targets)
              /\ External \notin Range(e.targets)
              /\ sanitizeMermaid(External) \notin Range(e.targets)

C5_Witness ==
    /\ variant = "part_002"
    /\ GraphDone
    /\ Len(Edges) > 0
    /\ \E i \in 1..Len(projects) :
          /\ projects[i].path # ""
          /\ External \in Range(DeclaredNames(projects[i]))
          /\ \E n \in Range(DeclaredNames(projects[i])) : HasProject(projects, n)

\* C6: every source subgraph has at most one edge statement and an edge
\* statement names a target subgraph at most once, however many members of
\* the source depend on the target and under whichever of dependencies and
\* devDependencies.
C6_EdgesAreASet ==
    (variant = "part_002" /\ GraphDone) =>
        /\ LET edges == Edges IN NoDuplicates([k \in 1..Len(edges) |-> edges[k].id])
        /\ \A e \in Range(Edges) : NoDuplicates(e.targets)

C6_Witness ==
    /\ variant = "part_002"
    /\ GraphDone
    /\ \E i, j \in 1..Len(projects) : \E k \in 1..Len(Edges) :
          /\ i # j
          /\ projects[i].path # ""
          /\ FirstSegment(projects[i].path) = FirstSegment(projects[j].path)
          /\ Edges[k].id = FirstSegment(projects[i].path)
          /\ \E target \in Range(Edges[k].targets) :
                /\ DependsOnSegment(projects, projects[i], target)
                /\ DependsOnSegment(projects, projects[j], target)

\* C7: the project at path "" is a member of no subgraph block and never
\* the source of an edge, whatever it declares, and a dependency of another
\* project on it produces no edge: the graph is the graph of the list
\* without the root project.
C7_RootOutsideGraph ==
    (variant = "part_002" /\ GraphDone) =>
        /\ graph = generateDependencyGraph(NonRoot(projects))
        /\ \A block \in Range(Lines(graph, "subgraph")) : block.id # ""
        /\ \A node \in Range(Lines(graph, "node")) :
              \A i \in 1..Len(projects) :
                  projects[i].path = "" => node.label # projects[i].name
        /\ \A e \in Range(Edges) : e.id # "" /\ "" \notin Range(e.targets)

C7_Witness ==
    /\ variant = "part_002"
    /\ GraphDone
    /\ \E i, j \in 1..Len(projects) :
          /\ projects[i].path = ""
          /\ projects[j].path # ""
          /\ projects[j].name \in Range(DeclaredNames(projects[i]))
          /\ projects[i].name \in Range(DeclaredNames(projects[j]))

RECURSIVE Blocks(_, _)
\* the subgraph blocks of a graph text, each with the labels between its
\* subgraph line and its end line
Blocks(text, i) ==
    IF i > Len(text) THEN <<>>
    ELSE IF text[i].kind = "subgraph"
    THEN LET close == CHOOSE j \in i..Len(text) :
                          text[j].kind = "end" /\ \A k \in i..(j - 1) : text[k].kind # "end"
         IN <<[key |-> text[i].id,
               labels |-> [k \in 1..(close - i - 1) |-> text[i + k].label]]>>
            \o Blocks(text, close + 1)
    ELSE Blocks(text, i + 1)

\* the names of the projects whose path starts with the segment key, in list order
MemberNames(ps, key) ==
    LET In(p) == p.path # "" /\ FirstSegment(p.path) = key
        members == SelectSeq(ps, In)
    IN [k \in 1..Len(members) |-> members[k].name]

\* C8: the subgraph blocks appear in the order in which the project list
\* first meets their keys, whatever the key strings are, and the node
\* declarations of a block appear in project-list order.
C8_EncounterOrder ==
    (variant = "part_002" /\ GraphDone) =>
        LET blocks == Blocks(graph, 1)
        IN /\ [k \in 1..Len(blocks) |-> blocks[k].key] = TopDirectories(projects)
           /\ \A k \in 1..Len(blocks) :
                 blocks[k].labels = MemberNames(projects, blocks[k].key)

HasSanitizedChar(str) == \E i \in 1..Len(str) : Char(str, i) \in SanitizedChars

\* C9: sanitizeMermaid(sanitizeMermaid(s)) = sanitizeMermaid(s) for every
\* string s, and a string holding none of "@", "/", "-" is returned unchanged.
C9_SanitizeIdempotent ==
    /\ applied = 2 => twice = once
    /\ (applied >= 1 /\ ~HasSanitizedChar(s)) => once = s
    /\ applied >= 1 => ~HasSanitizedChar(once) /\ Len(once) = Len(s)

C9_Witness ==
    /\ applied = 2
    /\ Len(s) = MaxLen
    /\ \A c \in SanitizedChars : \E i \in 1..Len(s) : Char(s, i) = c

CallsOf(name) == LET IsCall(e) == e.call = name IN SelectSeq(events, IsCall)

\* getPnpmWorkspaceProjects has run
DiscoveryDone == Len(CallsOf("pnpm ls")) > 0

\* pnpm ls printed its records, and one of them has an empty name or a
\* package.json that does not parse into the expected shape
Malformed(found) ==
    /\ found.pnpm = "ok"
    /\ \/ ~WorkspaceProjectSchema(found.packages)
       \/ \E i \in 1..Len(found.packages) : ~packageJsonSchema(found.packages[i])

\* C11: when a discovered record has an empty name or a project's manifest
\* does not parse into the expected shape, discovery ends with an error that
\* reaches program.action: no list, empty or shortened, is returned in its
\* place.
C11_MalformedInputFails ==
    (DiscoveryDone /\ Malformed(discovered)) =>
        /\ returned = <<>>
        /\ error # <<>>

\* the list discovery returned holds every record pnpm ls printed
Complete ==
    /\ returned # <<>>
    /\ Len(returned[1]) = Len(discovered.packages)
    /\ \A i \in 1..Len(returned[1]) :
          /\ returned[1][i].name = discovered.packages[i].name
          /\ returned[1][i].name # ""

\* C12: ARCHITECTURE.md is written at most once, only after discovery has
\* returned a complete non-empty list and the document has been generated
\* from it, and only with --yes (then without a prompt) or after the answer
\* yes; when discovery or validation fails, the tree and the graph are never
\* generated and nothing is written.
C12_WrittenOnceWhenConfirmed ==
    LET writes == CallsOf("fs.writeFile")
        prompts == CallsOf("inquirer.prompt")
    IN /\ Len(writes) <= 1
       /\ Len(writes) = 1 =>
             /\ Complete
             /\ Len(returned[1]) > 0
             /\ projects = returned[1]
             /\ pc = "done"
             /\ doc = <<Template(rootPackageJson.name, description, stack,
                                 generateFolderTree(createNodeTree(projects)),
                                 generateDependencyGraph(projects))>>
             /\ options.yes \/ (Len(prompts) = 1 /\ prompts[1].result = "yes")
       /\ file # <<>> => (Len(writes) = 1 /\ file = doc)
       /\ options.yes => Len(prompts) = 0
       /\ (DiscoveryDone /\ (discovered.pnpm # "ok" \/ Malformed(discovered))) =>
             /\ pc = "notInvoked"
             /\ nodes = <<>> /\ tree = NoText /\ graph = NoText
             /\ doc = <<>>
             /\ Len(writes) = 0
             /\ file = <<>>

C12_Witness ==
    /\ file # <<>>
    /\ ~options.yes
    /\ CallsOf("inquirer.prompt") = <<Call("inquirer.prompt", "yes")>>
    /\ Len(returned[1]) = MaxRecords
    /\ phase = "returned"

\* what the catch block of enhanceDescriptionWithAI is to give
ExpectedFallback(packageJson) ==
    IF packageJson.description \in {<<>>, <<"">>} THEN DefaultDescription
    ELSE packageJson.description[1]

Failed(call) == call.result \in {"throws", "empty"}

\* C13: with AI enhancement enabled, when the description call fails or
\* returns empty text the description is the root package.json description,
\* or the default sentence when there is none; when the tech stack call
\* fails or returns empty text the stack is the empty string; no AI failure
\* makes the run reject, and the document is compiled with these values and
\* the generated tree and graph.
C13_AIFailureFallsBack ==
    LET calls == CallsOf("generateText")
    IN aiSettings.useAI =>
          /\ (Len(calls) >= 1 /\ Failed(calls[1])) =>
                description = <<ExpectedFallback(rootPackageJson)>>
          /\ (Len(calls) >= 2 /\ Failed(calls[2])) => stack = ""
          /\ (Len(calls) >= 1 /\ phase = "rejected") =>
                /\ events[Len(events)].call # "generateText"
                /\ doc # <<>>
          /\ (\E k \in 1..Len(calls) : Failed(calls[k])) =>
                /\ Len(calls) = 2 => pc # "notInvoked"
                /\ doc # <<>> =>
                      /\ doc[1].description = description[1]
                      /\ doc[1].stack = stack
                      /\ doc[1].tree = generateFolderTree(createNodeTree(projects))
                      /\ doc[1].graph = generateDependencyGraph(projects)
                      /\ Len(doc[1].tree) > 2

C13_Witness ==
    LET calls == CallsOf("generateText")
    IN /\ aiSettings.useAI
       /\ Len(calls) = 2
       /\ calls[1].result = "throws"
       /\ calls[2].result = "empty"
       /\ rootPackageJson.description = <<>>
       /\ doc # <<>>
       /\ doc[1].description = DefaultDescription
       /\ file = doc

\* the array in which createNodeTree starts the walk of the i-th project
WalkStart(ps, i) ==
    LET top == Inner(AddProjects(<<>>, SubSeq(ps, 1, i - 1), 1), TreeTop)
    IN IF Len(top) > 0 THEN top[1] ELSE TreeTop

\* in the forest as the iteration of the i-th project leaves it, the node at
\* which the walk of its segments ends carries its name
WalkEndNamed(ps, i) ==
    LET after == AddProjects(<<>>, SubSeq(ps, 1, i), 1)
        end == Follow(after, WalkStart(ps, i), Split(ps[i].path, "/"), 1)
    IN end # Null /\ after[end].projectName = <<ps[i].name>>

\* C14: when createNodeTree has consumed the segments of a project's path,
\* the node at which the walk ends has that project's name as projectName,
\* also when the node existed before because the path of an earlier project
\* passes through it.
C14_TerminalNodeNamed ==
    TreeBuilt => \A i \in 1..Len(projects) : WalkEndNamed(projects, i)

\* the two projects of the scenario of the specification
Scenario ==
    <<[name |-> "@x/core", path |-> "packages/core",
       dependencies |-> <<>>, devDependencies |-> <<>>],
      [name |-> "@x/api", path |-> "services/api",
       dependencies |-> <<"@x/core", "left-pad">>, devDependencies |-> <<>>]>>

\* some non-root project with first path segment S declares the name of a
\* project with first path segment T
SubgraphDependsOn(ps, S, T) ==
    \E i \in 1..Len(ps) :
        /\ ps[i].path # ""
        /\ FirstSegment(ps[i].path) = S
        /\ DependsOnSegment(ps, ps[i], T)

HasEdge(S, T) == \E e \in Range(Edges) : e.id = S /\ T \in Range(e.targets)

\* C15: for a list with unique names, the graph has an edge from subgraph S
\* to another subgraph T exactly when a non-root project under S declares,
\* in dependencies or devDependencies, the exact name of a project under T;
\* the scenario's list gives the subgraphs packages and services and the one
\* edge services --> packages.
C15_EdgeIffDependency ==
    (variant = "part_002" /\ GraphDone) =>
        /\ LET keys == Range(TopDirectories(projects))
                         \cup {e.id : e \in Range(Edges)}
                         \cup UNION {Range(e.targets) : e \in Range(Edges)}
           IN \A S, T \in keys :
                 S # T => (HasEdge(S, T) <=> (T # "" /\ SubgraphDependsOn(projects, S, T)))
        /\ projects = Scenario =>
              /\ Lines(graph, "subgraph") = <<SubgraphLine("packages"), SubgraphLine("services")>>
              /\ Len(Edges) = 1
              /\ Edges[1].text = "  services --> packages"

C15_Witness ==
    /\ variant = "part_002"
    /\ GraphDone
    /\ projects = Scenario
    /\ HasEdge("services", "packages")

\* the k-th piece of four characters of a line, counted from 0, or ""
Piece(line, k) ==
    IF Len(line) >= 4 * k + 4 THEN SubSeq(line, 4 * k + 1, 4 * k + 4) ELSE ""

RECURSIVE DepthFrom(_, _)
\* how many pieces of indentation a line has before its connector
DepthFrom(line, k) ==
    IF Piece(line, k) \in {VerticalGuide, BlankIndent} THEN DepthFrom(line, k + 1) ELSE k

Depth(line) == DepthFrom(line, 0)

\* the first line after the i-th that is no deeper than it: the end of the
\* subtree of the i-th line
SubtreeEnd(body, i) ==
    LET later == {j \in (i + 1)..Len(body) : Depth(body[j]) <= Depth(body[i])}
    IN IF later = {} THEN Len(body) + 1
       ELSE CHOOSE j \in later : \A k \in later : j <= k

\* no sibling follows the i-th line
IsLastSibling(body, i) ==
    LET j == SubtreeEnd(body, i)
    IN j > Len(body) \/ Depth(body[j]) < Depth(body[i])

\* every line has the connector of its own position among its siblings, and
\* the lines of its subtree the matching piece of indentation below it
WellConnected(body) ==
    \A i \in 1..Len(body) :
        LET d == Depth(body[i])
            last == IsLastSibling(body, i)
        IN /\ Piece(body[i], d) = IF last THEN CornerConnector ELSE BranchConnector
           /\ \A k \in (i + 1)..(SubtreeEnd(body, i) - 1) :
                 Piece(body[k], d) = IF last THEN BlankIndent ELSE VerticalGuide

RootAbsentOrFirst == \A i \in 1..Len(projects) : projects[i].path = "" => i = 1

\* the lines of the directories: the tree body without the bare line of a
\* root project listed first
DirectoryLines ==
    IF variant = "part_002" /\ RootFirst THEN Tail(Body(tree)) ELSE Body(tree)

\* C16: in the rendered tree of either variant, every sibling but the last
\* has the branch connector and a vertical guide before the lines of its
\* subtree, the last sibling has the corner connector and blank indentation
\* before the lines of its subtree: the connector of a line is that of the
\* node's own position among its siblings.
C16_ConnectorOfOwnPosition ==
    (TreeRendered /\ RootAbsentOrFirst) => WellConnected(DirectoryLines)

NodeIds == LET declared == Lines(graph, "node")
           IN [k \in 1..Len(declared) |-> declared[k].id]

\* C17: for a list with unique names, no two node declarations of the graph
\* have the same identifier: two different projects never get the same
\* sanitized name.
C17_NodeIdsUnique ==
    (variant = "part_002" /\ GraphDone) =>
        /\ NoDuplicates(NodeIds)
        /\ Len(NodeIds) = Len(NonRoot(projects))

\* a subgraph block with this key opens before line k of the graph
DeclaredBefore(text, k, key) ==
    \E j \in 1..(k - 1) : text[j].kind = "subgraph" /\ text[j].id = key

\* C18: the source and every target of an edge statement is the key of a
\* subgraph block that the same output declares before it, for every
\* project list.
C18_EdgesNameDeclaredSubgraphs ==
    (variant = "part_002" /\ GraphDone) =>
        \A k \in 1..Len(graph) :
            graph[k].kind = "edge" =>
                /\ DeclaredBefore(graph, k, graph[k].id)
                /\ Len(graph[k].targets) > 0
                /\ \A target \in Range(graph[k].targets) :
                      DeclaredBefore(graph, k, target)

C18_Witness ==
    /\ variant = "part_002"
    /\ GraphDone
    /\ Len(Edges) = 2
    /\ Len(Lines(graph, "subgraph")) = 2
    /\ \A e \in Range(Edges) : Len(e.targets) = 1

====
